---------------------------- MODULE Spec2Model ----------------------------
(***************************************************************************)
(* A model of the test-result attribution engine of tag_tests.py: the      *)
(* status order and merge (worsen), the identifier decomposer              *)
(* (parse_identifier), the result-tree walk (collect_tests), the           *)
(* aggregation fold, file discovery, and the per-file resolver of main();  *)
(* and of the discrete-horizon pipeline of Scripts/train_prep.py, from     *)
(* load_ndjson to the train/validation split of save_training_data.        *)
(*                                                                         *)
(* Python values are records [kind, val, keys, kids]:                      *)
(*   kind "str"  : val is the string, a sequence of one-character strings  *)
(*   kind "int"  : a number (any hashable value that is not a string)      *)
(*   kind "None" : Python's None                                           *)
(*   kind "dict" : keys and kids are the items in insertion order          *)
(*   kind "list" : kids are the elements                                   *)
(***************************************************************************)
EXTENDS Integers, Sequences, FiniteSets, TLC

VARIABLES
    pc,             \* position of main(): which statement runs next
    dry_run,        \* args.dry_run
    test_ref_ids,   \* main: test_ref_ids
    tests,          \* main: tests, the (identifier, status) pairs
    ri,             \* number of test_ref_ids the load loop has fetched
    ti,             \* number of pairs of tests the reduce loop has folded
    by_suite,       \* main: by_suite
    by_func,        \* main: by_func
    sources,        \* what the scanners find in each walked file (input)
    file_infos,     \* main: file_infos
    func_to_files,  \* main: func_to_files
    results,        \* per resolved file: the printed kind and strategy
    summary,        \* main: summary (None before line 250)
    tags,           \* per walked file: its persisted Finder tags
    tag_writes,     \* number of calls of add_tag
    printed,        \* whether the summary block was printed
    error,          \* the exception that ended the run, "" when none
    p_in, p_out,    \* parse_identifier alone: argument and result
    m_in, m_out,    \* worsen alone: arguments and results
    w_in, w_out,    \* collect_tests alone: the tree walked and the list filled
    prep_pc,        \* position of train_prep.py's main()
    df,             \* train_prep.py main: df, the rows in their order
    datasets,       \* train_prep.py main: datasets, one per horizon
    splits          \* per horizon: train_df and val_df of save_training_data

vars == <<pc, dry_run, test_ref_ids, ri, tests, ti, by_suite, by_func, sources,
          file_infos, func_to_files, results, summary, tags, tag_writes, printed, error,
          p_in, p_out, m_in, m_out, w_in, w_out, prep_pc, df, datasets, splits>>

prepVars == <<prep_pc, df, datasets, splits>>

mainVars == <<pc, dry_run, test_ref_ids, ri, tests, ti, by_suite, by_func, sources,
              file_infos, func_to_files, results, summary, tags, tag_writes, printed,
              error>>

---------------------------------------------------------------------------
\* Bounds of the model.

\* actions of the result bundle (each may carry one testsRef)
MaxRefs == 2
\* test files found by the walk
MaxFiles == 2
\* leaf pairs folded when the fold is checked alone
MaxLeaves == 2
\* length of the identifiers given to parse_identifier alone
MaxIdLen == 7
\* nesting depth of the trees given to collect_tests alone
MaxDepth == 3

---------------------------------------------------------------------------
\* Python values.

Str(s) == [kind |-> "str", val |-> s, keys |-> <<>>, kids |-> <<>>]
IntVal == [kind |-> "int", val |-> <<>>, keys |-> <<>>, kids |-> <<>>]
None == [kind |-> "None", val |-> <<>>, keys |-> <<>>, kids |-> <<>>]
Dict(ks, vs) == [kind |-> "dict", val |-> <<>>, keys |-> ks, kids |-> vs]
List(vs) == [kind |-> "list", val |-> <<>>, keys |-> <<>>, kids |-> vs]

\* key in d, d[key] for a dict value
HasKey(d, k) == \E i \in 1..Len(d.keys) : d.keys[i] = k
Get(d, k) == d.kids[CHOOSE i \in 1..Len(d.keys) : d.keys[i] = k]

\* dicts and lists are unhashable: they raise TypeError as a dict key or set member
Unhashable(v) == v.kind \in {"dict", "list"}

\* The status spellings.
Failure == <<"F","a","i","l","u","r","e">>
ExpectedFailure == <<"E","x","p","e","c","t","e","d"," ","F","a","i","l","u","r","e">>
Success == <<"S","u","c","c","e","s","s">>
Skipped == <<"S","k","i","p","p","e","d">>
Unknown == <<"U","n","k","n","o","w","n">>
\* a spelling the priority table does not hold
Weird == <<"W","e","i","r","d">>

---------------------------------------------------------------------------
\* Status precedence.

\* Variant of get_status_priority: Expected Failure ranked like Success.
PriorityMutEF(status) ==
    IF status.kind # "str" THEN 0
    ELSE CASE status.val = Failure -> 4
           [] status.val = ExpectedFailure -> 2
           [] status.val = Success -> 2
           [] status.val = Skipped -> 1
           [] status.val = Unknown -> 0
           [] OTHER -> 0

\* Variant of get_status_priority: the default of priority.get set to 4.
PriorityMutDefault(status) ==
    IF status.kind # "str" THEN 4
    ELSE CASE status.val = Failure -> 4
           [] status.val = ExpectedFailure -> 3
           [] status.val = Success -> 2
           [] status.val = Skipped -> 1
           [] status.val = Unknown -> 0
           [] OTHER -> 4

\* get_status_priority(status), for a hashable status
get_status_priority(status) ==
    IF status.kind # "str" THEN 0
    ELSE CASE status.val = Failure -> 4
           [] status.val = ExpectedFailure -> 3
           [] status.val = Success -> 2
           [] status.val = Skipped -> 1
           [] status.val = Unknown -> 0
           [] OTHER -> 0

\* worsen raises TypeError when priority.get is given an unhashable key
WorsenRaises(old_status, new_status) ==
    /\ old_status # None
    /\ (Unhashable(new_status) \/ Unhashable(old_status))

\* Variant of worsen: the last status seen wins.
WorsenMutLast(old_status, new_status) == new_status

\* Variant of worsen: the comparison of line 19 turned round.
WorsenMutLower(old_status, new_status) ==
    IF old_status = None THEN new_status
    ELSE IF get_status_priority(new_status) < get_status_priority(old_status)
         THEN new_status
         ELSE old_status

\* worsen(old_status, new_status), when it does not raise
worsen(old_status, new_status) ==
    IF old_status = None THEN new_status
    ELSE IF get_status_priority(new_status) > get_status_priority(old_status)
         THEN new_status
         ELSE old_status

---------------------------------------------------------------------------
\* String helpers (Python's str.partition and str.split on one character).

\* index of the first c in s, 0 when there is none
FirstIndex(s, c) ==
    IF \E i \in 1..Len(s) : s[i] = c
    THEN CHOOSE i \in 1..Len(s) : s[i] = c /\ \A j \in 1..(i-1) : s[j] # c
    ELSE 0

\* index of the last c in s, 0 when there is none
LastIndex(s, c) ==
    IF \E i \in 1..Len(s) : s[i] = c
    THEN CHOOSE i \in 1..Len(s) : s[i] = c /\ \A j \in (i+1)..Len(s) : s[j] # c
    ELSE 0

\* s.partition(c): <<left, sep found, right>>
Partition(s, c) ==
    LET i == FirstIndex(s, c)
    IN  IF i = 0 THEN <<s, FALSE, <<>>>>
        ELSE <<SubSeq(s, 1, i-1), TRUE, SubSeq(s, i+1, Len(s))>>

\* s.split(c)[0]
SplitFirst(s, c) ==
    LET i == FirstIndex(s, c)
    IN  IF i = 0 THEN s ELSE SubSeq(s, 1, i-1)

\* s.split(c)[-1]
SplitLast(s, c) ==
    LET i == LastIndex(s, c)
    IN  IF i = 0 THEN s ELSE SubSeq(s, i+1, Len(s))

---------------------------------------------------------------------------
\* Identifier decomposer.

\* Variant of parse_identifier: line 72 (suite = None) left out.
ParseMutKeepSuite(identifier) ==
    LET id == IF identifier.kind = "dict" /\ HasKey(identifier, "_value")
              THEN Get(identifier, "_value") ELSE identifier
    IN  IF id.kind # "str" THEN [suite |-> None, func |-> None]
        ELSE
        LET parts == Partition(id.val, "/")
            left == parts[1]
            sep == parts[2]
            right == parts[3]
            func0 == IF sep THEN Str(SplitFirst(right, "(")) ELSE None
            suite0 == IF left # <<>> THEN Str(SplitLast(left, ".")) ELSE None
            maybe_func == SplitFirst(left, "(")
        IN  IF ~sep /\ left # <<>> /\ maybe_func # <<>> /\ maybe_func # left
            THEN [suite |-> suite0, func |-> Str(maybe_func)]
            ELSE [suite |-> suite0, func |-> func0]

\* parse_identifier(identifier): [suite, func], each None or a str value
parse_identifier(identifier) ==
    LET id == IF identifier.kind = "dict" /\ HasKey(identifier, "_value")
              THEN Get(identifier, "_value") ELSE identifier
    IN  IF id.kind # "str" THEN [suite |-> None, func |-> None]
        ELSE
        LET parts == Partition(id.val, "/")
            left == parts[1]
            sep == parts[2]
            right == parts[3]
            func0 == IF sep THEN Str(SplitFirst(right, "(")) ELSE None
            suite0 == IF left # <<>> THEN Str(SplitLast(left, ".")) ELSE None
            maybe_func == SplitFirst(left, "(")
        IN  IF ~sep /\ left # <<>> /\ maybe_func # <<>> /\ maybe_func # left
            THEN [suite |-> None, func |-> Str(maybe_func)]
            ELSE [suite |-> suite0, func |-> func0]

\* Python truthiness of a token: None and "" are false
Truthy(tok) == tok # None /\ tok.val # <<>>

---------------------------------------------------------------------------
\* Result tree walk.

RECURSIVE collect_tests(_, _)
RECURSIVE CollectEach(_, _)

\* for v in vs: collect_tests(v, out)
CollectEach(vs, out) ==
    IF vs = <<>> THEN out
    ELSE CollectEach(Tail(vs), collect_tests(Head(vs), out))

\* one level of value-container unwrapping (lines 38-41)
Unwrap(v) ==
    IF v.kind = "dict" /\ HasKey(v, "_value") THEN Get(v, "_value") ELSE v

\* Variant of collect_tests: the children of an emitted mapping are not walked.
CollectMutStopAtLeaf(obj, out) ==
    IF obj.kind = "dict" THEN
        IF HasKey(obj, "testStatus") /\ HasKey(obj, "identifier")
        THEN Append(out, <<Unwrap(Get(obj, "identifier")),
                           Unwrap(Get(obj, "testStatus"))>>)
        ELSE CollectEach(obj.kids, out)
    ELSE IF obj.kind = "list" THEN CollectEach(obj.kids, out)
    ELSE out

\* collect_tests(obj, out): out with the pairs of obj appended
collect_tests(obj, out) ==
    IF obj.kind = "dict" THEN
        LET out1 == IF HasKey(obj, "testStatus") /\ HasKey(obj, "identifier")
                    THEN Append(out, <<Unwrap(Get(obj, "identifier")),
                                       Unwrap(Get(obj, "testStatus"))>>)
                    ELSE out
        IN  CollectEach(obj.kids, out1)
    ELSE IF obj.kind = "list" THEN CollectEach(obj.kids, out)
    ELSE out

---------------------------------------------------------------------------
\* Python dicts keyed by strings, as functions.

EmptyMap == [k \in {} |-> None]
Put(m, k, v) == [x \in (DOMAIN m) \cup {k} |-> IF x = k THEN v ELSE m[x]]
\* m.get(k)
GetOr(m, k) == IF k \in DOMAIN m THEN m[k] ELSE None

\* the elements of a sequence
Range(s) == {s[i] : i \in 1..Len(s)}

---------------------------------------------------------------------------
\* Inputs of a run: the result bundle.

\* The value of action["actionResult"].get("testsRef") of one action.
RefId == <<"r">>
TestsRefPool ==
    { None,
      Dict(<<"id">>, <<Dict(<<"_value">>, <<Str(RefId)>>)>>),
      Dict(<<"id">>, <<Str(RefId)>>),
      Dict(<<"id">>, <<IntVal>>) }

\* lines 187-193: the ids one testsRef adds to test_ref_ids
RefIdsOf(tests_ref) ==
    IF tests_ref.kind = "dict" /\ HasKey(tests_ref, "id") THEN
        LET test_id == Get(tests_ref, "id")
        IN  IF test_id.kind = "dict" /\ HasKey(test_id, "_value")
            THEN <<Get(test_id, "_value")>>
            ELSE IF test_id.kind = "str" THEN <<test_id>> ELSE <<>>
    ELSE <<>>

RECURSIVE RefIds(_)
\* lines 185-193: test_ref_ids of the bundle's actions
RefIds(refs) ==
    IF refs = <<>> THEN <<>> ELSE RefIdsOf(Head(refs)) \o RefIds(Tail(refs))

\* sequences over S of length at most n
RECURSIVE SeqUpTo(_, _)
SeqUpTo(S, n) ==
    IF n = 0 THEN {<<>>}
    ELSE LET shorter == SeqUpTo(S, n - 1)
         IN  shorter \cup {Append(q, x) : q \in {r \in shorter : Len(r) = n - 1}, x \in S}

\* Identifiers the runner emits.
Id_S_f == <<"S","/","f","(",")">>
Id_M_S_f == <<"M",".","S","/","f","(",")">>
Id_T_g == <<"T","/","g","(",")">>
Id_f == <<"f","(",")">>

\* a value wrapped one level deep in a value container
Wrapped(v) == Dict(<<"_type", "_value">>, <<Str(<<"t">>), v>>)
\* a testStatus that is a mapping without the value-container key
BadStatus == Dict(<<"code">>, <<IntVal>>)

\* a result node with both fields, and a tree holding such nodes
Leaf(identifier, test_status) ==
    Dict(<<"identifier", "testStatus">>, <<identifier, test_status>>)
Plan(leaves) == Dict(<<"summaries">>, <<Dict(<<"_values">>, <<List(leaves)>>)>>)

\* The trees xcget_id may return for one testsRef: no result node, one
\* node (fields plain or wrapped, status recognized or not, status or
\* identifier malformed), and a node nested in a node.
TreePool ==
    { Plan(<<>>),
      Plan(<<Leaf(Wrapped(Str(Id_S_f)), Str(Failure))>>),
      Plan(<<Leaf(Str(Id_S_f), Str(Skipped))>>),
      Plan(<<Leaf(Str(Id_T_g), Wrapped(Str(ExpectedFailure)))>>),
      Plan(<<Leaf(Str(Id_T_g), Str(Success))>>),
      Plan(<<Leaf(Str(Id_S_f), BadStatus)>>),
      Plan(<<Dict(<<"identifier", "testStatus", "subtests">>,
                  <<IntVal, Str(Failure), List(<<Leaf(Str(Id_f), Str(Weird))>>)>>)>>) }

---------------------------------------------------------------------------
\* Inputs of a run: the test files of the project.

\* What the three scanners find in one file's source: discover_suites,
\* discover_xctest_classes, discover_top_level_tests.
Source(su, cl, te) == [suites |-> su, classes |-> cl, tests |-> te]
SourcePool ==
    { Source(<<>>, <<>>, <<>>),
      Source(<<<<"S">>>>, <<>>, <<>>),
      Source(<<<<"S">>>>, <<<<"T">>>>, <<<<"f">>>>),
      Source(<<>>, <<<<"X">>>>, <<<<"g">>>>),
      Source(<<>>, <<>>, <<<<"f">>>>),
      Source(<<>>, <<>>, <<<<"g">>, <<"g">>>>),
      Source(<<<<"S">>, <<"S">>>>, <<<<"T">>, <<"T">>>>, <<>>) }

---------------------------------------------------------------------------
\* The aggregation fold (lines 207-215).

\* One iteration of the loop at line 210 on the tables bs, bf: the tables
\* after it, and whether worsen raised (the suite entry is written before
\* the function entry is computed).
ReduceOne(bs, bf, pair) ==
    LET p == parse_identifier(pair[1])
        status == pair[2]
        suiteRaises == Truthy(p.suite) /\ WorsenRaises(GetOr(bs, p.suite.val), status)
        funcRaises == Truthy(p.func) /\ WorsenRaises(GetOr(bf, p.func.val), status)
        bs1 == IF Truthy(p.suite) /\ ~suiteRaises
               THEN Put(bs, p.suite.val, worsen(GetOr(bs, p.suite.val), status))
               ELSE bs
        bf1 == IF Truthy(p.func) /\ ~suiteRaises /\ ~funcRaises
               THEN Put(bf, p.func.val, worsen(GetOr(bf, p.func.val), status))
               ELSE bf
    IN  [by_suite |-> bs1, by_func |-> bf1, raised |-> suiteRaises \/ funcRaises]

---------------------------------------------------------------------------
\* Finder tagging.

PassedTag == "TestPassed"
FailedTag == "TestFailed"
UnknownTag == "TestUnknown"

\* read_existing_tags(path): the tags a file holds before the run; the
\* first file of the walk was tagged failed by an earlier run
read_existing_tags(path) == IF path = 1 THEN <<FailedTag>> ELSE <<>>

RECURSIVE Dedupe(_)
\* list(dict.fromkeys(tags)): the first occurrence of each tag, in order
Dedupe(ts) ==
    IF ts = <<>> THEN <<>>
    ELSE LET front == Dedupe(SubSeq(ts, 1, Len(ts) - 1))
             last == ts[Len(ts)]
         IN  IF last \in Range(front) THEN front ELSE Append(front, last)

\* add_tag(path, tag) on the tags the path holds
add_tag(existing, tag) ==
    Dedupe(IF tag \in Range(existing) THEN existing ELSE Append(existing, tag))

---------------------------------------------------------------------------
\* Classification.

\* Variant of classify_status: Expected Failure not counted as passing.
ClassifyMutEF(statuses) ==
    IF \E s \in statuses : s = Str(Failure) THEN "Failed"
    ELSE IF \E s \in statuses : s = Str(Success) THEN "Passed"
    ELSE "Unknown"

\* classify_status(statuses)
classify_status(statuses) ==
    IF \E s \in statuses : s = Str(Failure) THEN "Failed"
    ELSE IF \E s \in statuses : s \in {Str(Success), Str(ExpectedFailure)} THEN "Passed"
    ELSE IF \E s \in statuses : s = Str(Skipped) THEN "Unknown"
    ELSE "Unknown"

\* Variant of FileInfo: the functions are kept beside suites and classes.
FileInfoMutKeepFuncs(path, src) ==
    [path |-> path,
     suites |-> src.suites,
     xctest_classes |-> src.classes,
     top_level_funcs |-> src.tests]

\* lines 230-243: the file_infos entry of a walked file
FileInfo(path, src) ==
    [path |-> path,
     suites |-> src.suites,
     xctest_classes |-> src.classes,
     top_level_funcs |-> IF src.suites # <<>> \/ src.classes # <<>>
                         THEN <<>> ELSE src.tests]

\* Variant of IndexFuncs: a list in place of the set, so that a name listed
\* twice in a file is indexed twice (the second time as -path).
IndexMutList(f2f, funcs, path) ==
    [f \in (DOMAIN f2f) \cup Range(funcs) |->
        IF f \in Range(funcs)
        THEN (IF f \in DOMAIN f2f THEN f2f[f] ELSE {})
             \cup {path}
             \cup (IF \E i, j \in 1..Len(funcs) : i # j /\ funcs[i] = f /\ funcs[j] = f
                   THEN {0 - path} ELSE {})
        ELSE f2f[f]]

\* lines 235-236: func_to_files after a file's funcs are indexed
IndexFuncs(f2f, funcs, path) ==
    [f \in (DOMAIN f2f) \cup Range(funcs) |->
        IF f \in Range(funcs)
        THEN (IF f \in DOMAIN f2f THEN f2f[f] ELSE {}) \cup {path}
        ELSE f2f[f]]

\* Variant of Collision: no collision is ever seen.
CollisionMutNever(f2f, funcs) == FALSE

\* Variant of Collision: >= 1 in place of > 1.
CollisionMutAny(f2f, funcs) ==
    \E f \in Range(funcs) :
        Cardinality(IF f \in DOMAIN f2f THEN f2f[f] ELSE {}) >= 1

\* line 277: collision = any(len(func_to_files[f]) > 1 for f in funcs)
Collision(f2f, funcs) ==
    \E f \in Range(funcs) :
        Cardinality(IF f \in DOMAIN f2f THEN f2f[f] ELSE {}) > 1

\* lines 262-268: the strategy named from the suites and classes of a file
TokenStrategy(info) ==
    IF info.suites # <<>>
    THEN (IF info.xctest_classes # <<>> THEN "suite+xctest" ELSE "suite")
    ELSE (IF info.xctest_classes # <<>> THEN "xctest" ELSE "none")

\* Variant of ResolveFile: a collision counts only the files up to this one.
ResolveMutSeenOnly(info, bs, bf, f2f) ==
    LET tokens == info.suites \o info.xctest_classes
        funcs == info.top_level_funcs
        found == {bs[t] : t \in Range(tokens) \cap DOMAIN bs}
        raised1 == \E v \in found : Unhashable(v)
        fallback == found = {} /\ funcs # <<>>
        seen == [f \in DOMAIN f2f |-> {q \in f2f[f] : q <= info.path}]
        collision == fallback /\ Collision(seen, funcs)
        funcFound == {bf[f] : f \in Range(funcs) \cap DOMAIN bf}
        raised2 == fallback /\ ~collision /\ \E v \in funcFound : Unhashable(v)
        collected == IF fallback /\ ~collision THEN funcFound ELSE found
    IN  [raised |-> raised1 \/ raised2,
         collision |-> collision,
         strategy |-> IF collision THEN "func-collision"
                      ELSE IF fallback THEN "func-unique"
                      ELSE TokenStrategy(info),
         collected |-> IF collision THEN {} ELSE collected,
         kind |-> IF collision THEN "Unknown"
                  ELSE IF collected # {} THEN classify_status(collected)
                  ELSE "Unknown"]

\* lines 252-297 for one file: what it collects and decides.
\*   raised    : set.add was given an unhashable status (TypeError)
\*   collision : the func-collision branch was taken (lines 278-288)
ResolveFile(info, bs, bf, f2f) ==
    LET tokens == info.suites \o info.xctest_classes
        funcs == info.top_level_funcs
        found == {bs[t] : t \in Range(tokens) \cap DOMAIN bs}
        raised1 == \E v \in found : Unhashable(v)
        fallback == found = {} /\ funcs # <<>>
        collision == fallback /\ Collision(f2f, funcs)
        funcFound == {bf[f] : f \in Range(funcs) \cap DOMAIN bf}
        raised2 == fallback /\ ~collision /\ \E v \in funcFound : Unhashable(v)
        collected == IF fallback /\ ~collision THEN funcFound ELSE found
    IN  [raised |-> raised1 \/ raised2,
         collision |-> collision,
         strategy |-> IF collision THEN "func-collision"
                      ELSE IF fallback THEN "func-unique"
                      ELSE TokenStrategy(info),
         collected |-> IF collision THEN {} ELSE collected,
         kind |-> IF collision THEN "Unknown"
                  ELSE IF collected # {} THEN classify_status(collected)
                  ELSE "Unknown"]

\* lines 299-303: the tag written for a classification
TagName(kind) ==
    CASE kind = "Failed" -> FailedTag
      [] kind = "Passed" -> PassedTag
      [] kind = "Unknown" -> UnknownTag

NewSummary == [Failed |-> 0, Passed |-> 0, Unknown |-> 0]

---------------------------------------------------------------------------
\* The run of main().

Unparsed == [done |-> FALSE, suite |-> None, func |-> None]
Unwalked == [done |-> FALSE, out |-> <<>>]

\* train_prep.py is not running
PrepIdle ==
    /\ prep_pc = "idle"
    /\ df = <<>>
    /\ datasets = <<>>
    /\ splits = <<>>
Unmerged == [done |-> FALSE, ab |-> None, ba |-> None, ab_c |-> None,
             a_bc |-> None, aa |-> None, none_a |-> None]

\* the variables of the stand-alone function checks, at rest
AloneIdle ==
    /\ p_in = None
    /\ p_out = Unparsed
    /\ m_in = <<None, None, None>>
    /\ m_out = Unmerged
    /\ w_in = None
    /\ w_out = Unwalked
    /\ PrepIdle

\* the state of main() before line 184, for either value of --dry-run
Init ==
    /\ pc = "collect_refs"
    /\ dry_run \in BOOLEAN
    /\ test_ref_ids = <<>>
    /\ ri = 0
    /\ tests = <<>>
    /\ ti = 0
    /\ by_suite = EmptyMap
    /\ by_func = EmptyMap
    /\ sources = <<>>
    /\ file_infos = <<>>
    /\ func_to_files = EmptyMap
    /\ results = <<>>
    /\ summary = EmptyMap
    /\ tags = <<>>
    /\ tag_writes = 0
    /\ printed = FALSE
    /\ error = ""
    /\ AloneIdle

\* lines 184-196: collect testsRef ids; exit 2 when there are none
CollectRefs ==
    /\ pc = "collect_refs"
    /\ \E refs \in SeqUpTo(TestsRefPool, MaxRefs) :
        /\ test_ref_ids' = RefIds(refs)
        /\ pc' = IF RefIds(refs) = <<>> THEN "exit2" ELSE "load"
    /\ UNCHANGED <<dry_run, ri, tests, ti, by_suite, by_func, sources, file_infos,
                   func_to_files, results, summary, tags, tag_writes, printed, error,
                   p_in, p_out, m_in, m_out, w_in, w_out, prepVars>>

\* lines 199-205: fetch one testsRef and walk it; after the last one,
\* exit 3 when no pair was collected
LoadTests ==
    /\ pc = "load"
    /\ ri < Len(test_ref_ids)
    /\ \E tjson \in TreePool :
        /\ tests' = collect_tests(tjson, tests)
        /\ ri' = ri + 1
        /\ pc' = IF ri + 1 < Len(test_ref_ids) THEN "load"
                 ELSE IF collect_tests(tjson, tests) = <<>> THEN "exit3"
                 ELSE "reduce"
    /\ UNCHANGED <<dry_run, test_ref_ids, ti, by_suite, by_func, sources, file_infos,
                   func_to_files, results, summary, tags, tag_writes, printed, error,
                   p_in, p_out, m_in, m_out, w_in, w_out, prepVars>>

\* lines 210-215: fold one pair of tests into by_suite and by_func
Reduce ==
    /\ pc = "reduce"
    /\ ti < Len(tests)
    /\ LET r == ReduceOne(by_suite, by_func, tests[ti + 1])
       IN  /\ by_suite' = r.by_suite
           /\ by_func' = r.by_func
           /\ ti' = IF r.raised THEN ti ELSE ti + 1
           /\ error' = IF r.raised THEN "TypeError" ELSE error
           /\ pc' = IF r.raised THEN "error"
                    ELSE IF ti + 1 < Len(tests) THEN "reduce" ELSE "discover"
    /\ UNCHANGED <<dry_run, test_ref_ids, ri, tests, sources, file_infos,
                   func_to_files, results, summary, tags, tag_writes, printed,
                   p_in, p_out, m_in, m_out, w_in, w_out, prepVars>>

\* lines 221-243: the walk finds one more test file
Discover ==
    /\ pc = "discover"
    /\ Len(file_infos) < MaxFiles
    /\ \E src \in SourcePool :
        LET path == Len(file_infos) + 1
            info == FileInfo(path, src)
        IN  /\ sources' = Append(sources, src)
            /\ file_infos' = Append(file_infos, info)
            /\ func_to_files' = IndexFuncs(func_to_files, info.top_level_funcs, path)
            /\ tags' = Append(tags, read_existing_tags(path))
    /\ UNCHANGED <<pc, dry_run, test_ref_ids, ri, tests, ti, by_suite, by_func,
                   results, summary, tag_writes, printed, error, p_in, p_out, m_in, m_out, w_in, w_out, prepVars>>

\* Variant of EndWalk: the check of line 245 left out.
EndWalkMutNoCheck ==
    /\ pc = "discover"
    /\ pc' = IF file_infos = <<>> THEN "summary" ELSE "resolve"
    /\ summary' = NewSummary
    /\ UNCHANGED <<dry_run, test_ref_ids, ri, tests, ti, by_suite, by_func, sources,
                   file_infos, func_to_files, results, tags, tag_writes, printed, error,
                   p_in, p_out, m_in, m_out, w_in, w_out, prepVars>>

\* lines 245-250: the walk is over; exit 4 when it found no test file
EndWalk ==
    /\ pc = "discover"
    /\ pc' = IF file_infos = <<>> THEN "exit4" ELSE "resolve"
    /\ summary' = IF file_infos = <<>> THEN summary ELSE NewSummary
    /\ UNCHANGED <<dry_run, test_ref_ids, ri, tests, ti, by_suite, by_func, sources,
                   file_infos, func_to_files, results, tags, tag_writes, printed, error,
                   p_in, p_out, m_in, m_out, w_in, w_out, prepVars>>

\* Variant of Resolve: the func-collision branch tags without looking at
\* --dry-run.
ResolveMutCollisionTags ==
    /\ pc = "resolve"
    /\ Len(results) < Len(file_infos)
    /\ LET i == Len(results) + 1
           r == ResolveFile(file_infos[i], by_suite, by_func, func_to_files)
           quiet == dry_run /\ ~r.collision
       IN  IF r.raised
           THEN /\ pc' = "error"
                /\ error' = "TypeError"
                /\ UNCHANGED <<results, summary, tags, tag_writes>>
           ELSE /\ results' = Append(results, [kind |-> r.kind, strategy |-> r.strategy,
                                               collected |-> r.collected])
                /\ summary' = [summary EXCEPT ![r.kind] = @ + 1]
                /\ tags' = IF quiet THEN tags
                           ELSE [tags EXCEPT ![i] = add_tag(@, TagName(r.kind))]
                /\ tag_writes' = IF quiet THEN tag_writes ELSE tag_writes + 1
                /\ pc' = IF i < Len(file_infos) THEN "resolve" ELSE "summary"
                /\ error' = error
    /\ UNCHANGED <<dry_run, test_ref_ids, ri, tests, ti, by_suite, by_func, sources,
                   file_infos, func_to_files, printed, p_in, p_out, m_in, m_out,
                   w_in, w_out, prepVars>>

\* lines 252-311: decide and tag the next file of file_infos
Resolve ==
    /\ pc = "resolve"
    /\ Len(results) < Len(file_infos)
    /\ LET i == Len(results) + 1
           r == ResolveFile(file_infos[i], by_suite, by_func, func_to_files)
       IN  IF r.raised
           THEN /\ pc' = "error"
                /\ error' = "TypeError"
                /\ UNCHANGED <<results, summary, tags, tag_writes>>
           ELSE /\ results' = Append(results, [kind |-> r.kind, strategy |-> r.strategy,
                                               collected |-> r.collected])
                /\ summary' = [summary EXCEPT ![r.kind] = @ + 1]
                /\ tags' = IF dry_run THEN tags
                           ELSE [tags EXCEPT ![i] = add_tag(@, TagName(r.kind))]
                /\ tag_writes' = IF dry_run THEN tag_writes ELSE tag_writes + 1
                /\ pc' = IF i < Len(file_infos) THEN "resolve" ELSE "summary"
                /\ error' = error
    /\ UNCHANGED <<dry_run, test_ref_ids, ri, tests, ti, by_suite, by_func, sources,
                   file_infos, func_to_files, printed, p_in, p_out, m_in, m_out, w_in, w_out, prepVars>>

\* lines 313-315: print the summary block
PrintSummary ==
    /\ pc = "summary"
    /\ printed' = TRUE
    /\ pc' = "done"
    /\ UNCHANGED <<dry_run, test_ref_ids, ri, tests, ti, by_suite, by_func, sources,
                   file_infos, func_to_files, results, summary, tags, tag_writes,
                   error,
                   p_in, p_out, m_in, m_out, w_in, w_out, prepVars>>

Next ==
    \/ CollectRefs
    \/ LoadTests
    \/ Reduce
    \/ Discover
    \/ EndWalk
    \/ Resolve
    \/ PrintSummary

Spec == Init /\ [][Next]_vars

---------------------------------------------------------------------------
\* parse_identifier alone, called on every identifier up to MaxIdLen characters.

IdLetters == {"a", "b"}
IdChars == IdLetters \cup {".", "/", "(", ")"}

\* The argument of the next call: a value that is no string, or the last
\* string with one more character.
ParseInputs(prev) ==
    IF prev = None
    THEN {Str(<<>>), IntVal, Wrapped(Str(<<"b", "/", "a", "(", ")">>)), BadStatus}
    ELSE IF prev.kind = "str" /\ Len(prev.val) < MaxIdLen
         THEN {Str(Append(prev.val, c)) : c \in IdChars}
         ELSE {}

\* main() not started, parse_identifier not called yet
InitParse ==
    /\ pc = "collect_refs"
    /\ dry_run = FALSE
    /\ test_ref_ids = <<>>
    /\ ri = 0
    /\ tests = <<>>
    /\ ti = 0
    /\ by_suite = EmptyMap
    /\ by_func = EmptyMap
    /\ sources = <<>>
    /\ file_infos = <<>>
    /\ func_to_files = EmptyMap
    /\ results = <<>>
    /\ summary = EmptyMap
    /\ tags = <<>>
    /\ tag_writes = 0
    /\ printed = FALSE
    /\ error = ""
    /\ p_in = None
    /\ p_out = Unparsed
    /\ m_in = <<None, None, None>>
    /\ m_out = Unmerged
    /\ w_in = None
    /\ w_out = Unwalked
    /\ PrepIdle

\* a call parse_identifier(v)
ParseAlone ==
    /\ \E v \in ParseInputs(p_in) :
        /\ p_in' = v
        /\ p_out' = LET r == parse_identifier(v)
                    IN  [done |-> TRUE, suite |-> r.suite, func |-> r.func]
    /\ UNCHANGED <<mainVars, m_in, m_out, w_in, w_out, prepVars>>

NextParse == ParseAlone

SpecParse == InitParse /\ [][NextParse]_vars

---------------------------------------------------------------------------
\* worsen alone, on every triple of the five status variants.

Status5 == {Str(Failure), Str(ExpectedFailure), Str(Success), Str(Skipped), Str(Unknown)}

\* main() not started, worsen about to be called on the statuses of m_in
InitMerge ==
    /\ pc = "collect_refs"
    /\ dry_run = FALSE
    /\ test_ref_ids = <<>>
    /\ ri = 0
    /\ tests = <<>>
    /\ ti = 0
    /\ by_suite = EmptyMap
    /\ by_func = EmptyMap
    /\ sources = <<>>
    /\ file_infos = <<>>
    /\ func_to_files = EmptyMap
    /\ results = <<>>
    /\ summary = EmptyMap
    /\ tags = <<>>
    /\ tag_writes = 0
    /\ printed = FALSE
    /\ error = ""
    /\ p_in = None
    /\ p_out = Unparsed
    /\ m_in \in Status5 \X Status5 \X Status5
    /\ m_out = Unmerged
    /\ w_in = None
    /\ w_out = Unwalked
    /\ PrepIdle

\* the calls of worsen on a = m_in[1], b = m_in[2], c = m_in[3]
MergeAlone ==
    /\ m_in[1] # None
    /\ ~m_out.done
    /\ m_out' = LET a == m_in[1]
                    b == m_in[2]
                    c == m_in[3]
                IN  [done |-> TRUE,
                     ab |-> worsen(a, b),
                     ba |-> worsen(b, a),
                     ab_c |-> worsen(worsen(a, b), c),
                     a_bc |-> worsen(a, worsen(b, c)),
                     aa |-> worsen(a, a),
                     none_a |-> worsen(None, a)]
    /\ UNCHANGED <<mainVars, p_in, p_out, m_in, w_in, w_out, prepVars>>

NextMerge == MergeAlone

SpecMerge == InitMerge /\ [][NextMerge]_vars

---------------------------------------------------------------------------
\* The aggregation fold alone, on every sequence of at most MaxLeaves pairs.

FoldIdents ==
    { Str(Id_S_f), Str(Id_M_S_f), Str(Id_T_g), Str(Id_f), Str(<<"S">>), IntVal }
FoldStatuses == Status5 \cup {Str(Weird), BadStatus}
FoldPairs == {<<i, s>> : i \in FoldIdents, s \in FoldStatuses}

\* main() at line 207: the pairs are collected, the tables are empty
InitFold ==
    /\ pc = "reduce"
    /\ dry_run = FALSE
    /\ test_ref_ids = <<Str(RefId)>>
    /\ ri = 1
    /\ tests \in SeqUpTo(FoldPairs, MaxLeaves) \ {<<>>}
    /\ ti = 0
    /\ by_suite = EmptyMap
    /\ by_func = EmptyMap
    /\ sources = <<>>
    /\ file_infos = <<>>
    /\ func_to_files = EmptyMap
    /\ results = <<>>
    /\ summary = EmptyMap
    /\ tags = <<>>
    /\ tag_writes = 0
    /\ printed = FALSE
    /\ error = ""
    /\ AloneIdle

NextFold == Reduce

SpecFold == InitFold /\ [][NextFold]_vars

---------------------------------------------------------------------------
\* collect_tests alone, called on every tree built from result nodes, plain
\* mappings, lists and scalars up to MaxDepth levels deep.

RECURSIVE Depth(_)
\* the number of container levels of a value
Depth(v) ==
    IF v.kids = <<>> THEN (IF v.kind \in {"dict", "list"} THEN 1 ELSE 0)
    ELSE 1 + (CHOOSE d \in {Depth(v.kids[i]) : i \in 1..Len(v.kids)} :
                \A i \in 1..Len(v.kids) : Depth(v.kids[i]) <= d)

\* The argument of the next call: a scalar, an empty container or a single
\* node, or the last tree placed inside one more container.
WalkInputs(prev, called) ==
    IF ~called
    THEN { None, IntVal, Str(Id_f), List(<<>>), Dict(<<>>, <<>>),
           Leaf(Str(Id_f), Str(Success)),
           Leaf(Wrapped(Str(Id_S_f)), Wrapped(Str(Failure))),
           Leaf(Wrapped(Wrapped(Str(Id_S_f))), BadStatus),
           Dict(<<"identifier">>, <<Str(Id_f)>>),
           Dict(<<"testStatus">>, <<Str(Success)>>) }
    ELSE IF Depth(prev) < MaxDepth
         THEN { List(<<prev>>),
                List(<<Leaf(Str(Id_T_g), Str(Skipped)), prev, Leaf(Str(Id_f), Str(Weird))>>),
                Dict(<<"subtests">>, <<prev>>),
                Dict(<<"identifier", "subtests">>, <<Str(Id_T_g), prev>>),
                Dict(<<"subtests", "testStatus">>, <<prev, Str(Failure)>>),
                Dict(<<"identifier", "testStatus", "subtests">>,
                     <<Str(Id_T_g), Wrapped(Str(ExpectedFailure)), prev>>),
                Dict(<<"testStatus", "identifier">>, <<Str(Skipped), prev>>),
                Dict(<<"_value", "identifier", "testStatus">>,
                     <<prev, Str(Id_f), prev>>) }
         ELSE {}

\* main() not started, collect_tests not called yet
InitWalk ==
    /\ pc = "collect_refs"
    /\ dry_run = FALSE
    /\ test_ref_ids = <<>>
    /\ ri = 0
    /\ tests = <<>>
    /\ ti = 0
    /\ by_suite = EmptyMap
    /\ by_func = EmptyMap
    /\ sources = <<>>
    /\ file_infos = <<>>
    /\ func_to_files = EmptyMap
    /\ results = <<>>
    /\ summary = EmptyMap
    /\ tags = <<>>
    /\ tag_writes = 0
    /\ printed = FALSE
    /\ error = ""
    /\ AloneIdle

\* a call collect_tests(v, out) with out = []
WalkAlone ==
    /\ \E v \in WalkInputs(w_in, w_out.done) :
        /\ w_in' = v
        /\ w_out' = [done |-> TRUE, out |-> collect_tests(v, <<>>)]
    /\ UNCHANGED <<mainVars, p_in, p_out, m_in, m_out, prepVars>>

NextWalk == WalkAlone

SpecWalk == InitWalk /\ [][NextWalk]_vars

---------------------------------------------------------------------------
\* The discrete-horizon pipeline of train_prep.py's main(): load_ndjson,
\* create_forward_labels, build_features, create_training_dataset,
\* save_training_data. A row keeps the fields the row order and the labels
\* depend on; the numeric feature columns are computed row by row and are
\* left out. ts_utc is carried into the dataset rows to tell which record a
\* row of X comes from.

\* records of the NDJSON file
MaxRows == 3
\* the default of validation_fraction, in percent
ValidationPercent == 30
\* --horizons
Horizons == <<0, 1>>

\* a ProbeTick record: bridge, minute, whether the bridge is lifting
Row(b, t, o) == [bridge_id |-> b, ts_utc |-> t, open_label |-> o]
RowPool == {Row(b, t, o) : b \in {1, 2}, t \in {1, 2, 3}, o \in {0, 1}}

\* the sort key ['bridge_id', 'ts_utc'] of line 287
KeyLeq(r, q) ==
    \/ r.bridge_id < q.bridge_id
    \/ r.bridge_id = q.bridge_id /\ r.ts_utc <= q.ts_utc

RECURSIVE SortValues(_)
\* df.sort_values(['bridge_id', 'ts_utc']): a stable sort
SortValues(rows) ==
    IF rows = <<>> THEN <<>>
    ELSE LET front == SortValues(SubSeq(rows, 1, Len(rows) - 1))
             last == rows[Len(rows)]
             n == Cardinality({i \in 1..Len(front) : KeyLeq(front[i], last)})
         IN  SubSeq(front, 1, n) \o <<last>> \o SubSeq(front, n + 1, Len(front))

\* groupby('bridge_id')['open_label'].shift(-horizon).fillna(0) at row i
ShiftedLabel(rows, i, horizon) ==
    LET later == {j \in (i + 1)..Len(rows) : rows[j].bridge_id = rows[i].bridge_id}
        at == {j \in later : Cardinality({m \in later : m <= j}) = horizon}
    IN  IF horizon = 0 THEN rows[i].open_label
        ELSE IF at = {} THEN 0
        ELSE rows[CHOOSE j \in at : TRUE].open_label

\* create_forward_labels(df, horizons)
create_forward_labels(rows, horizons) ==
    LET sorted == SortValues(rows)
    IN  [i \in 1..Len(sorted) |->
            [bridge_id |-> sorted[i].bridge_id,
             ts_utc |-> sorted[i].ts_utc,
             open_label |-> sorted[i].open_label,
             fwd |-> [h \in Range(horizons) |-> ShiftedLabel(sorted, i, h)]]]

\* build_features(df): columns are added, the rows stay in place
build_features(rows) ==
    [i \in 1..Len(rows) |->
        [bridge_id |-> rows[i].bridge_id,
         ts_utc |-> rows[i].ts_utc,
         open_label |-> rows[i].open_label,
         fwd |-> rows[i].fwd,
         bridge_id_int |-> rows[i].bridge_id]]

\* create_training_dataset(df, horizons): X and y of each horizon, row by row
create_training_dataset(rows, horizons) ==
    [k \in 1..Len(horizons) |->
        [i \in 1..Len(rows) |->
            [bridge_id |-> rows[i].bridge_id_int,
             horizon_min |-> horizons[k],
             target |-> rows[i].fwd[horizons[k]],
             ts_utc |-> rows[i].ts_utc]]]

\* time_based_split(df) with the default validation_fraction
time_based_split(rows) ==
    LET split_idx == (Len(rows) * (100 - ValidationPercent)) \div 100
    IN  [train_df |-> SubSeq(rows, 1, split_idx),
         val_df |-> SubSeq(rows, split_idx + 1, Len(rows))]

\* main() of train_prep.py before load_ndjson
InitPrep ==
    /\ pc = "collect_refs"
    /\ dry_run = FALSE
    /\ test_ref_ids = <<>>
    /\ ri = 0
    /\ tests = <<>>
    /\ ti = 0
    /\ by_suite = EmptyMap
    /\ by_func = EmptyMap
    /\ sources = <<>>
    /\ file_infos = <<>>
    /\ func_to_files = EmptyMap
    /\ results = <<>>
    /\ summary = EmptyMap
    /\ tags = <<>>
    /\ tag_writes = 0
    /\ printed = FALSE
    /\ error = ""
    /\ p_in = None
    /\ p_out = Unparsed
    /\ m_in = <<None, None, None>>
    /\ m_out = Unmerged
    /\ w_in = None
    /\ w_out = Unwalked
    /\ prep_pc = "load"
    /\ df = <<>>
    /\ datasets = <<>>
    /\ splits = <<>>

\* load_ndjson: the records of the file; ValueError when there is none
LoadNdjson ==
    /\ prep_pc = "load"
    /\ \E rows \in SeqUpTo(RowPool, MaxRows) :
        /\ df' = rows
        /\ prep_pc' = IF rows = <<>> THEN "error" ELSE "labels"
    /\ UNCHANGED <<mainVars, p_in, p_out, m_in, m_out, w_in, w_out, datasets, splits>>

\* df = create_forward_labels(df, horizons)
CreateForwardLabels ==
    /\ prep_pc = "labels"
    /\ df' = create_forward_labels(df, Horizons)
    /\ prep_pc' = "features"
    /\ UNCHANGED <<mainVars, p_in, p_out, m_in, m_out, w_in, w_out, datasets, splits>>

\* df = build_features(df)
BuildFeatures ==
    /\ prep_pc = "features"
    /\ df' = build_features(df)
    /\ prep_pc' = "datasets"
    /\ UNCHANGED <<mainVars, p_in, p_out, m_in, m_out, w_in, w_out, datasets, splits>>

\* datasets = create_training_dataset(df, horizons)
CreateTrainingDataset ==
    /\ prep_pc = "datasets"
    /\ datasets' = create_training_dataset(df, Horizons)
    /\ prep_pc' = "save"
    /\ UNCHANGED <<mainVars, p_in, p_out, m_in, m_out, w_in, w_out, df, splits>>

\* save_training_data(datasets, args.output, horizons)
SaveTrainingData ==
    /\ prep_pc = "save"
    /\ splits' = [k \in 1..Len(datasets) |-> time_based_split(datasets[k])]
    /\ prep_pc' = "done"
    /\ UNCHANGED <<mainVars, p_in, p_out, m_in, m_out, w_in, w_out, df, datasets>>

NextPrep ==
    \/ LoadNdjson
    \/ CreateForwardLabels
    \/ BuildFeatures
    \/ CreateTrainingDataset
    \/ SaveTrainingData

SpecPrep == InitPrep /\ [][NextPrep]_vars

---------------------------------------------------------------------------
\* Properties.

\* The severity order of the five status variants, most severe first:
\* Failure > Expected Failure > Success > Skipped > Unknown; a value that
\* is none of the recognized spellings counts as Unknown.
Severity(v) ==
    IF v = Str(Failure) THEN 4
    ELSE IF v = Str(ExpectedFailure) THEN 3
    ELSE IF v = Str(Success) THEN 2
    ELSE IF v = Str(Skipped) THEN 1
    ELSE 0

\* The classification rule of a set of statuses: Failed if any is Failure,
\* else Passed if any is Success or Expected Failure, else Unknown.
Rule(statuses) ==
    IF Str(Failure) \in statuses THEN "Failed"
    ELSE IF Str(Success) \in statuses \/ Str(ExpectedFailure) \in statuses THEN "Passed"
    ELSE "Unknown"

\* a nonempty name made of letters only
IsWord(w) == w # <<>> /\ \A i \in 1..Len(w) : w[i] \in IdLetters
\* s ends with a parameter list "()" after at least one character
EndsWithCall(s) ==
    Len(s) >= 3 /\ s[Len(s) - 1] = "(" /\ s[Len(s)] = ")"

\* C3, the shapes with a slash: "A.B/c()" and "B/c()" give grouping B and
\* function c.
SlashShapesParsed ==
    (p_out.done /\ p_in.kind = "str") =>
        LET s == p_in.val
        IN  \A j \in 1..Len(s) :
              (s[j] = "/" /\ EndsWithCall(s) /\ IsWord(SubSeq(s, j + 1, Len(s) - 2)))
              => /\ IsWord(SubSeq(s, 1, j - 1))
                    => /\ p_out.suite = Str(SubSeq(s, 1, j - 1))
                       /\ p_out.func = Str(SubSeq(s, j + 1, Len(s) - 2))
                 /\ \A i \in 1..(j - 1) :
                      (/\ s[i] = "."
                       /\ IsWord(SubSeq(s, 1, i - 1))
                       /\ IsWord(SubSeq(s, i + 1, j - 1)))
                      => /\ p_out.suite = Str(SubSeq(s, i + 1, j - 1))
                         /\ p_out.func = Str(SubSeq(s, j + 1, Len(s) - 2))

\* C3, the shape "c()": grouping absent, function c.
CallShapeParsed ==
    (p_out.done /\ p_in.kind = "str") =>
        LET s == p_in.val
        IN  (EndsWithCall(s) /\ IsWord(SubSeq(s, 1, Len(s) - 2)))
            => (p_out.suite = None /\ p_out.func = Str(SubSeq(s, 1, Len(s) - 2)))

\* C3 as stated: the shapes above, and an identifier "c" without slash or
\* parentheses gives both tokens absent.
C3_AsStated ==
    /\ SlashShapesParsed
    /\ CallShapeParsed
    /\ (p_out.done /\ p_in.kind = "str" /\ IsWord(p_in.val))
            => (p_out.suite = None /\ p_out.func = None)

\* C3 (amended): parse_identifier maps "A.B/c()" and "B/c()" to grouping B
\* and function c, "c()" to no grouping and function c, and a bare name "c"
\* to grouping c and no function.
C3_ParseShapes ==
    /\ SlashShapesParsed
    /\ CallShapeParsed
    /\ (p_out.done /\ p_in.kind = "str" /\ IsWord(p_in.val))
            => (p_out.suite = p_in /\ p_out.func = None)

C3_Witness ==
    /\ p_out.done
    /\ p_in = Str(<<"a", ".", "b", "/", "a", "(", ")">>)
    /\ p_out.suite = Str(<<"b">>)
    /\ p_out.func = Str(<<"a">>)

Max(x, y) == IF x >= y THEN x ELSE y

\* C4: over the five status variants worsen is commutative, associative and
\* idempotent, returns the operand of greater severity, and worsen(None, s)
\* is s.
C4_MergeLaws ==
    m_out.done =>
        LET a == m_in[1]
            b == m_in[2]
        IN  /\ m_out.ab = m_out.ba
            /\ m_out.ab_c = m_out.a_bc
            /\ m_out.aa = a
            /\ m_out.ab \in {a, b}
            /\ Severity(m_out.ab) = Max(Severity(a), Severity(b))
            /\ m_out.none_a = a

C4_Witness ==
    /\ m_out.done
    /\ m_in = <<Str(Success), Str(ExpectedFailure), Str(Failure)>>
    /\ m_out.ab = Str(ExpectedFailure)
    /\ m_out.ab_c = Str(Failure)

\* the statuses of the leaf pairs whose identifier decomposes to grouping k
SuiteStatuses(k) ==
    {tests[n][2] : n \in {m \in 1..Len(tests) :
        LET p == parse_identifier(tests[m][1])
        IN  Truthy(p.suite) /\ p.suite.val = k}}
\* the statuses of the leaf pairs whose identifier decomposes to function k
FuncStatuses(k) ==
    {tests[n][2] : n \in {m \in 1..Len(tests) :
        LET p == parse_identifier(tests[m][1])
        IN  Truthy(p.func) /\ p.func.val = k}}

\* the grouping and function tokens the pairs decompose to
SuiteTokens ==
    {parse_identifier(tests[n][1]).suite.val : n \in 1..Len(tests)} \ {<<>>}
FuncTokens ==
    {parse_identifier(tests[n][1]).func.val : n \in 1..Len(tests)} \ {<<>>}

\* table holds exactly the tokens toks and, for each, a most severe status
\* among sts(token)
MostSevere(table, toks, sts(_)) ==
    /\ DOMAIN table = toks
    /\ \A k \in toks : sts(k) # {}
    /\ \A k \in DOMAIN table :
        /\ table[k] \in sts(k)
        /\ \A v \in sts(k) : Severity(v) <= Severity(table[k])

\* C5: once the fold is over, each grouping token and each function token
\* holds a most severe status among the pairs that decompose to it, whatever
\* the order of the pairs.
C5_FoldMostSevere ==
    (pc = "discover" /\ ti = Len(tests)) =>
        /\ MostSevere(by_suite, SuiteTokens, SuiteStatuses)
        /\ MostSevere(by_func, FuncTokens, FuncStatuses)

C5_Witness ==
    /\ pc = "discover"
    /\ tests = <<<<Str(Id_S_f), Str(Failure)>>, <<Str(Id_S_f), Str(Success)>>>>
    /\ by_suite[<<"S">>] = Str(Failure)
    /\ by_func[<<"f">>] = Str(Failure)

\* a file in which the scanners find no suite and no XCTestCase class
NoGroupings(src) == src.suites = <<>> /\ src.classes = <<>>
\* the statuses by_suite holds for the grouping and class candidates of file i
Lookup(i) ==
    {by_suite[t] : t \in Range(sources[i].suites \o sources[i].classes) \cap DOMAIN by_suite}
\* the statuses by_func holds for the test functions of file i
FuncLookup(i) ==
    {by_func[f] : f \in Range(sources[i].tests) \cap DOMAIN by_func}
\* file i and another file of the run list a common function candidate
SharesFunc(i) ==
    \E j \in 1..Len(file_infos) :
        /\ j # i
        /\ Range(file_infos[j].top_level_funcs) \cap Range(file_infos[i].top_level_funcs) # {}

\* C1: each resolved file's classification is the rule applied to the set
\* of statuses the resolver collected for it: Failed if any is Failure, else
\* Passed if any is Success or Expected Failure, else Unknown.
C1_ClassificationRule ==
    \A i \in 1..Len(results) : results[i].kind = Rule(results[i].collected)

C1_Witness ==
    \E i \in 1..Len(results) :
        /\ sources[i] = Source(<<<<"S">>>>, <<>>, <<>>)
        /\ <<"S">> \in DOMAIN by_suite
        /\ by_suite[<<"S">>] = Str(Skipped)
        /\ results[i].collected = {Str(Skipped)}
        /\ results[i].kind = "Unknown"

\* C2: two distinct files without grouping or class candidates that list a
\* common function candidate are both classified Unknown with strategy
\* func-collision, whatever by_func holds for the name.
C2_CollisionUnknown ==
    \A i \in 1..Len(results) : \A j \in 1..Len(sources) :
        (/\ i # j
         /\ NoGroupings(sources[i])
         /\ NoGroupings(sources[j])
         /\ Range(sources[i].tests) \cap Range(sources[j].tests) # {})
        => (results[i].kind = "Unknown" /\ results[i].strategy = "func-collision")

C2_Witness ==
    /\ pc = "done"
    /\ sources = <<Source(<<>>, <<>>, <<<<"f">>>>), Source(<<>>, <<>>, <<<<"f">>>>)>>
    /\ <<"f">> \in DOMAIN by_func
    /\ by_func[<<"f">>] = Str(Failure)
    /\ \A i \in 1..2 : results[i].kind = "Unknown" /\ results[i].strategy = "func-collision"

FuncStrategies == {"func-collision", "func-unique"}

\* C6 as stated: a file is resolved by the function strategy exactly when
\* the grouping/class lookup collected no status and the file has function
\* candidates; a file whose lookup collected a status is classified from
\* those statuses alone.
C6_AsStated ==
    \A i \in 1..Len(results) :
        /\ (results[i].strategy \in FuncStrategies)
              <=> (Lookup(i) = {} /\ sources[i].tests # <<>>)
        /\ Lookup(i) # {}
              => (results[i].collected = Lookup(i) /\ results[i].kind = Rule(Lookup(i)))

\* C6 (amended): a file is resolved by the function strategy exactly when
\* it has no grouping and no class candidate and has function candidates; a
\* file with a grouping or class candidate is classified from the by_suite
\* entries of those candidates alone, Unknown when there is none.
C6_FunctionFallback ==
    \A i \in 1..Len(results) :
        /\ (results[i].strategy \in FuncStrategies)
              <=> (NoGroupings(sources[i]) /\ sources[i].tests # <<>>)
        /\ ~NoGroupings(sources[i])
              => (results[i].collected = Lookup(i) /\ results[i].kind = Rule(Lookup(i)))

C6_Witness ==
    \E i \in 1..Len(results) :
        /\ sources[i] = Source(<<>>, <<<<"X">>>>, <<<<"g">>>>)
        /\ <<"g">> \in DOMAIN by_func
        /\ by_func[<<"g">>] = Str(Success)
        /\ results[i].strategy = "xctest"
        /\ results[i].kind = "Unknown"

\* the function names the scanners found or the index holds
FuncNames ==
    (DOMAIN func_to_files) \cup UNION {Range(sources[j].tests) : j \in 1..Len(sources)}
\* the files of the whole run that index function name f
FullIndex(f) ==
    {j \in 1..Len(sources) : NoGroupings(sources[j]) /\ f \in Range(sources[j].tests)}

\* what the resolver owes file i, from the file's own candidates, the
\* tables and the set of the other files of the run
ExpectedResult(i) ==
    IF ~NoGroupings(sources[i])
    THEN [kind |-> Rule(Lookup(i)),
          strategy |-> IF sources[i].suites = <<>> THEN "xctest"
                       ELSE IF sources[i].classes = <<>> THEN "suite"
                       ELSE "suite+xctest"]
    ELSE IF sources[i].tests = <<>> THEN [kind |-> "Unknown", strategy |-> "none"]
    ELSE IF \E j \in 1..Len(sources) :
                /\ j # i
                /\ NoGroupings(sources[j])
                /\ Range(sources[j].tests) \cap Range(sources[i].tests) # {}
         THEN [kind |-> "Unknown", strategy |-> "func-collision"]
         ELSE [kind |-> Rule(FuncLookup(i)), strategy |-> "func-unique"]

\* C7: from the first resolution on, func_to_files is the index of every
\* file of the run, and each file's classification and strategy are those
\* owed to it whatever its place in the walk (a file is func-collision when
\* a file resolved later lists one of its names).
C7_IndexBeforeResolution ==
    /\ (pc \in {"resolve", "summary", "done"} \/ results # <<>>)
          => /\ Len(file_infos) = Len(sources)
             /\ \A f \in FuncNames :
                  /\ (f \in DOMAIN func_to_files) <=> (FullIndex(f) # {})
                  /\ (f \in DOMAIN func_to_files) => (func_to_files[f] = FullIndex(f))
    /\ \A i \in 1..Len(results) :
          /\ results[i].kind = ExpectedResult(i).kind
          /\ results[i].strategy = ExpectedResult(i).strategy

C7_Witness ==
    /\ pc = "resolve"
    /\ Len(results) = 1
    /\ Len(sources) = 2
    /\ results[1].strategy = "func-collision"

\* C8: a file without grouping or class candidates whose function
\* candidates are listed by no other file is resolved func-unique and
\* classified from the by_func entries of its candidates; Failure among
\* them classifies it Failed.
C8_UniqueFunction ==
    \A i \in 1..Len(results) :
        (NoGroupings(sources[i]) /\ sources[i].tests # <<>> /\ ~SharesFunc(i))
        => /\ results[i].strategy = "func-unique"
           /\ results[i].collected = FuncLookup(i)
           /\ results[i].kind = Rule(FuncLookup(i))
           /\ (Str(Failure) \in FuncLookup(i)) => (results[i].kind = "Failed")

C8_Witness ==
    \E i \in 1..Len(results) :
        /\ sources[i] = Source(<<>>, <<>>, <<<<"f">>>>)
        /\ <<"f">> \in DOMAIN by_func
        /\ by_func[<<"f">>] = Str(Failure)
        /\ results[i].strategy = "func-unique"
        /\ results[i].kind = "Failed"

Exits == {"exit2", "exit3", "exit4"}

\* C9: the run ends at exit 2 exactly on no testsRef id, at exit 3 on ids
\* but no leaf pair, at exit 4 on pairs but no test file, in this order; an
\* exit is final, is no unhandled error, and leaves no file classified or
\* tagged and no summary printed; an unhandled error never stands in for one
\* of the three exits.
C9_EmptyResultExits ==
    /\ (pc = "exit2") => (test_ref_ids = <<>> /\ tests = <<>> /\ file_infos = <<>>)
    /\ (pc = "exit3") => /\ test_ref_ids # <<>>
                         /\ ri = Len(test_ref_ids)
                         /\ tests = <<>>
                         /\ file_infos = <<>>
    /\ (pc = "exit4") => /\ test_ref_ids # <<>>
                         /\ tests # <<>>
                         /\ ti = Len(tests)
                         /\ file_infos = <<>>
    /\ (pc \in Exits) => /\ error = ""
                         /\ results = <<>>
                         /\ tags = <<>>
                         /\ DOMAIN summary = {}
                         /\ ~printed
                         /\ ~ENABLED Next
    /\ (pc \in {"load", "reduce", "discover", "resolve", "summary", "done", "error"})
          => test_ref_ids # <<>>
    /\ (pc \in {"reduce", "discover", "resolve", "summary", "done", "error"})
          => tests # <<>>
    /\ (pc \in {"resolve", "summary", "done"} \/ (pc = "error" /\ ti = Len(tests)))
          => file_infos # <<>>

C9_Witness ==
    /\ pc = "exit3"
    /\ Len(test_ref_ids) = 2
    /\ ri = 2
    /\ tests = <<>>

\* C10 as stated: no result-tree node makes the run raise an error.
C10_NoError == pc # "error" /\ error = ""

RECURSIVE Paths(_)
\* the positions of a tree: the child indices from the root down to a value
Paths(v) ==
    {<<>>} \cup UNION {{<<i>> \o q : q \in Paths(v.kids[i])} : i \in 1..Len(v.kids)}

RECURSIVE At(_, _)
\* the value of tree v at position p
At(v, p) == IF p = <<>> THEN v ELSE At(v.kids[Head(p)], Tail(p))

\* position p comes before position q in a depth-first walk
Before(p, q) ==
    \/ Len(p) < Len(q) /\ SubSeq(q, 1, Len(p)) = p
    \/ \E i \in 1..Len(p) :
        /\ i <= Len(q)
        /\ SubSeq(p, 1, i - 1) = SubSeq(q, 1, i - 1)
        /\ p[i] < q[i]

\* a mapping with both an identifier field and a testStatus field
IsResultNode(v) ==
    v.kind = "dict" /\ "identifier" \in Range(v.keys) /\ "testStatus" \in Range(v.keys)
\* field k of mapping v, taken out of one value container when it is in one
FieldValue(v, k) ==
    LET x == v.kids[CHOOSE i \in 1..Len(v.keys) : v.keys[i] = k]
    IN  IF x.kind = "dict" /\ "_value" \in Range(x.keys)
        THEN x.kids[CHOOSE i \in 1..Len(x.keys) : x.keys[i] = "_value"]
        ELSE x

\* the positions of the walked tree that hold a result node
ResultNodes == {p \in Paths(w_in) : IsResultNode(At(w_in, p))}

\* C11: collect_tests returns on every tree, and the list it fills holds
\* exactly one pair per mapping that has both fields, at any depth and also
\* inside another such mapping, in depth-first order, each field taken out
\* of one level of value container; nothing else is emitted.
C11_WalkEmitsEveryLeaf ==
    w_out.done =>
        /\ Len(w_out.out) = Cardinality(ResultNodes)
        /\ \A p \in ResultNodes :
            LET n == Cardinality({q \in ResultNodes : Before(q, p)}) + 1
            IN  w_out.out[n] = <<FieldValue(At(w_in, p), "identifier"),
                                 FieldValue(At(w_in, p), "testStatus")>>

C11_Witness ==
    /\ w_out.done
    /\ w_in = Dict(<<"identifier", "testStatus", "subtests">>,
                   <<Str(Id_T_g), Wrapped(Str(ExpectedFailure)),
                     Leaf(Wrapped(Str(Id_S_f)), Wrapped(Str(Failure)))>>)
    /\ w_out.out = << <<Str(Id_T_g), Str(ExpectedFailure)>>,
                      <<Str(Id_S_f), Str(Failure)>> >>

\* every entry of table is kept by the step, at a severity no lower
NeverLowered(table, tableNext) ==
    \A k \in DOMAIN table :
        /\ k \in DOMAIN tableNext
        /\ Severity(tableNext[k]) >= Severity(table[k])

\* after the step the entry of token tok, when the pair has one, is at least
\* as severe as the status merged
AtLeastMerged(tableNext, tok, status) ==
    Truthy(tok) => /\ tok.val \in DOMAIN tableNext
                   /\ Severity(tableNext[tok.val]) >= Severity(status)

\* C12: no step lowers the severity of a by_suite or by_func entry or
\* removes one, and a step that folds a pair leaves the entries of the
\* pair's tokens at least as severe as the pair's status.
C12_MergeNeverLowers ==
    [][ /\ NeverLowered(by_suite, by_suite')
        /\ NeverLowered(by_func, by_func')
        /\ (pc = "reduce" /\ ti' = ti + 1) =>
              LET p == parse_identifier(tests[ti + 1][1])
              IN  /\ AtLeastMerged(by_suite', p.suite, tests[ti + 1][2])
                  /\ AtLeastMerged(by_func', p.func, tests[ti + 1][2]) ]_vars

C12_Witness ==
    /\ ti = 2
    /\ tests = <<<<Str(Id_S_f), Str(ExpectedFailure)>>, <<Str(Id_M_S_f), Str(Skipped)>>>>
    /\ by_suite[<<"S">>] = Str(ExpectedFailure)
    /\ by_func[<<"f">>] = Str(ExpectedFailure)

Classifications == {"Passed", "Failed", "Unknown"}
Strategies == {"suite", "xctest", "suite+xctest", "func-unique", "func-collision", "none"}

\* the number of files classified k so far
Tally(k) == Cardinality({i \in 1..Len(results) : results[i].kind = k})

\* each file resolved so far has one classification and one strategy tag,
\* and the summary counts them, each file once
TallyMatches ==
    /\ \A i \in 1..Len(results) :
        /\ results[i].kind \in Classifications
        /\ results[i].strategy \in Strategies
    /\ (pc \in {"resolve", "summary", "done"} \/ results # <<>>) =>
        /\ DOMAIN summary = Classifications
        /\ \A k \in Classifications : summary[k] = Tally(k)
        /\ summary.Failed + summary.Passed + summary.Unknown = Len(results)

\* the run went into the loop of line 252 and has ended
ResolutionEnded == pc \in {"done", "error"} /\ file_infos # <<>>

\* C13 as stated: in a run that reaches file resolution every discovered
\* file receives one classification among Passed, Failed, Unknown and one
\* strategy tag among the six, and the three counts of the summary are the
\* numbers of files of each classification and sum to the number of
\* discovered files.
C13_AsStated ==
    /\ TallyMatches
    /\ ResolutionEnded =>
        /\ Len(results) = Len(file_infos)
        /\ summary.Failed + summary.Passed + summary.Unknown = Len(file_infos)
        /\ printed

\* a testStatus string that is none of the five spellings
Unrecognized(v) ==
    /\ v.kind = "str"
    /\ v.val \notin {Failure, ExpectedFailure, Success, Skipped, Unknown}
\* the five variants by their spellings
FiveVariants ==
    {Str(Failure), Str(ExpectedFailure), Str(Success), Str(Skipped), Str(Unknown)}

\* the number of pairs of tests the fold has merged, the pair it raised on
\* included
Folded == IF pc = "error" /\ ti < Len(tests) THEN ti + 1 ELSE ti
\* the statuses merged so far for grouping token k, for function token k
FoldedSuite(k) ==
    {tests[n][2] : n \in {m \in 1..Folded :
        LET p == parse_identifier(tests[m][1])
        IN  Truthy(p.suite) /\ p.suite.val = k}}
FoldedFunc(k) ==
    {tests[n][2] : n \in {m \in 1..Folded :
        LET p == parse_identifier(tests[m][1])
        IN  Truthy(p.func) /\ p.func.val = k}}

\* every string held by the tables is one of the five variants
AllFiveVariants ==
    /\ \A k \in DOMAIN by_suite : by_suite[k].kind = "str" => by_suite[k] \in FiveVariants
    /\ \A k \in DOMAIN by_func : by_func[k].kind = "str" => by_func[k] \in FiveVariants

\* an unrecognized string held by table is the spelling of a leaf merged
\* into that token, and nothing merged into the token ranks above Unknown
KeptVerbatim(table, merged(_)) ==
    \A k \in DOMAIN table :
        Unrecognized(table[k]) =>
            /\ table[k] \in merged(k)
            /\ \A v \in merged(k) : Severity(v) = 0

\* a file whose collected statuses are all unrecognized is classified Unknown
UnrecognizedClassifyUnknown ==
    \A i \in 1..Len(results) :
        (\A v \in results[i].collected : Unrecognized(v)) => results[i].kind = "Unknown"

\* a step that merges an unrecognized status changes no entry already held
UnrecognizedNeverReplaces ==
    (pc = "reduce" /\ Unrecognized(tests[ti + 1][2])) =>
        /\ \A k \in DOMAIN by_suite : k \in DOMAIN by_suite' /\ by_suite'[k] = by_suite[k]
        /\ \A k \in DOMAIN by_func : k \in DOMAIN by_func' /\ by_func'[k] = by_func[k]

\* C14 as stated: an unrecognized testStatus string never replaces a status
\* already held, every value the tables hold is one of the five variants,
\* and a file whose collected statuses are all unrecognized is Unknown.
C14_AsStated ==
    /\ [](AllFiveVariants /\ UnrecognizedClassifyUnknown)
    /\ [][UnrecognizedNeverReplaces]_vars

\* C14 (amended): an unrecognized testStatus string ranks as Unknown: it
\* never replaces a status already held for a token and a file whose
\* collected statuses are all unrecognized is Unknown; the tables hold the
\* leaves' strings as spelled, so an entry is one of the five variants or an
\* unrecognized spelling kept verbatim, the latter only while nothing
\* merged into its token ranks above Unknown.
C14_UnrecognizedRanksLowest ==
    /\ [](/\ KeptVerbatim(by_suite, FoldedSuite)
          /\ KeptVerbatim(by_func, FoldedFunc)
          /\ UnrecognizedClassifyUnknown)
    /\ [][UnrecognizedNeverReplaces]_vars

C14_Witness ==
    /\ pc = "done"
    /\ tests = <<<<Str(Id_S_f), Str(Skipped)>>, <<IntVal, Str(Failure)>>,
                 <<Str(Id_f), Str(Weird)>>>>
    /\ by_func[<<"f">>] = Str(Skipped)
    /\ \E i \in 1..Len(results) :
        results[i].strategy = "func-unique" /\ results[i].kind = "Unknown"

RECURSIVE ListedOnce(_)
\* the names of a list, each kept at its first place only
ListedOnce(names) ==
    IF names = <<>> THEN <<>>
    ELSE LET front == ListedOnce(SubSeq(names, 1, Len(names) - 1))
             last == names[Len(names)]
         IN  IF \E n \in 1..Len(front) : front[n] = last THEN front
             ELSE Append(front, last)

\* a name is listed more than once
HasRepeat(names) == \E m, n \in 1..Len(names) : m # n /\ names[m] = names[n]

\* the candidates of a file with every repeated name listed once
OnceSource(src) ==
    Source(ListedOnce(src.suites), ListedOnce(src.classes), ListedOnce(src.tests))

RECURSIVE OnceIndex(_)
\* the function index of the first n files, had each listed its names once
OnceIndex(n) ==
    IF n = 0 THEN EmptyMap
    ELSE IndexFuncs(OnceIndex(n - 1),
                    FileInfo(n, OnceSource(sources[n])).top_level_funcs, n)

\* the decision for file i had every file of the run listed its names
\* once, index being the function index of these files
OnceResult(i, index) ==
    ResolveFile(FileInfo(i, OnceSource(sources[i])), by_suite, by_func, index)

\* C15: a file without grouping or class candidates that lists a function
\* name several times, none of its names being listed by another file, is
\* resolved func-unique; and every resolved file has the classification and
\* the strategy it would have had every file listed each name once.
C15_DuplicatesHarmless ==
    results # <<>> =>
        LET index == OnceIndex(Len(sources))
        IN  \A i \in 1..Len(results) :
                LET once == OnceResult(i, index)
                IN  /\ (/\ NoGroupings(sources[i])
                        /\ HasRepeat(sources[i].tests)
                        /\ ~SharesFunc(i)) => results[i].strategy = "func-unique"
                    /\ results[i].kind = once.kind
                    /\ results[i].strategy = once.strategy

C15_Witness ==
    /\ Len(results) = 2
    /\ sources = <<Source(<<>>, <<>>, <<<<"g">>, <<"g">>>>),
                   Source(<<<<"S">>, <<"S">>>>, <<<<"T">>, <<"T">>>>, <<>>)>>
    /\ <<"g">> \in DOMAIN by_func
    /\ by_func[<<"g">>] = Str(ExpectedFailure)
    /\ results[1].strategy = "func-unique"
    /\ results[1].kind = "Passed"
    /\ results[2].strategy = "suite+xctest"
    /\ results[2].kind = "Passed"

\* the two parts of horizon k's split hold the dataset's rows, each once
SplitPartitions(k) ==
    splits[k].train_df \o splits[k].val_df = datasets[k]
\* no row of the training part is later than a row of the validation part
SplitByTime(k) ==
    \A i \in 1..Len(splits[k].train_df) : \A j \in 1..Len(splits[k].val_df) :
        splits[k].train_df[i].ts_utc <= splits[k].val_df[j].ts_utc

\* C16 as stated: for every horizon the train/validation split partitions
\* the rows, and every training row has a timestamp no later than every
\* validation row, with records of one bridge or of several.
C16_AsStated ==
    prep_pc = "done" =>
        \A k \in 1..Len(splits) : SplitPartitions(k) /\ SplitByTime(k)

\* C17: with --dry-run no step calls add_tag and every file keeps the tags
\* it held before the run; and, --dry-run set or not, each resolved file's
\* classification and strategy tag and the summary counts are those owed
\* to the files by the tables and the project alone.
C17_DryRunWritesNothing ==
    /\ dry_run => /\ tag_writes = 0
                  /\ \A i \in 1..Len(tags) : tags[i] = read_existing_tags(i)
    /\ \A i \in 1..Len(results) :
        LET owed == ExpectedResult(i)
        IN  results[i].kind = owed.kind /\ results[i].strategy = owed.strategy
    /\ results # <<>> => \A k \in Classifications : summary[k] = Tally(k)

C17_Witness ==
    /\ dry_run
    /\ pc = "done"
    /\ sources = <<Source(<<>>, <<>>, <<<<"f">>>>), Source(<<>>, <<>>, <<<<"f">>>>)>>
    /\ results[1].strategy = "func-collision"
    /\ summary.Unknown = 2
    /\ tags = <<<<FailedTag>>, <<>>>>
    /\ printed

=============================================================================
